---- MODULE Spec2Model ----
(***************************************************************************)
(* Wizard-versus-boss battle engine of advent-wizard-rpg.                  *)
(*                                                                         *)
(*   src/src/rpg.rs   Boss, Spell, Wizard, Battle: the library with the    *)
(*                    four fine-grained transitions.                       *)
(*   src/src/main.rs  App: the terminal driver that sequences them.        *)
(*   src/src/game.rs  an earlier Battle with the coarse wizard_turn /      *)
(*                    boss_turn pair (its Boss and Wizard primitives are   *)
(*                    line for line those of rpg.rs).                      *)
(*                                                                         *)
(* Option<T> is a sequence of length at most one: None is << >> and        *)
(* Some(x) is <<x>>.  All integers are i32 in the source; with the initial *)
(* values and the call bound used here no value leaves -5000..5000, so     *)
(* wrap-around never arises and plain integers are exact.                  *)
(***************************************************************************)
EXTENDS Integers, Sequences, FiniteSets

VARIABLES
    mode,    \* which caller drives the engine: "any", "app", "coarse", "parity"
    pc,      \* the caller's position
    battle,  \* rpg.rs Battle (owned by App as App.game in main.rs)
    game,    \* game.rs Battle (the coarse orchestration)
    call,    \* the engine call made by the last step: [op, spell, ret]
    calls,   \* number of engine calls made by the "any" caller
    start    \* the statistics the combatants were built with

vars == <<mode, pc, battle, game, call, calls, start>>

-----------------------------------------------------------------------------
(* Bounds of the model *)

\* The "any" caller makes at most this many engine calls.
MaxCalls == 5

\* Initial statistics handed to Wizard::new / Boss::new and Battle::new.
WizardHitpoints == {2, 10}
WizardMana == {100, 250}
BossHitpoints == {4, 14, 22}
BossDamage == {3, 8}

-----------------------------------------------------------------------------
(* Option<T> *)

None == << >>
Some(x) == <<x>>
is_some(o) == o # None
is_none(o) == o = None

-----------------------------------------------------------------------------
(* Spell catalog *)

Spell == {"MagicMissile", "Drain", "Shield", "Poison", "Recharge"}

get_mana(spell) ==
    CASE spell = "MagicMissile" -> 53
      [] spell = "Drain" -> 73
      [] spell = "Shield" -> 113
      [] spell = "Poison" -> 173
      [] spell = "Recharge" -> 229

-----------------------------------------------------------------------------
(* Boss *)

Boss_default == [hitpoints |-> 55, damage |-> 8, poisoned |-> None]

Boss_new(hitpoints, damage) ==
    [hitpoints |-> hitpoints, damage |-> damage, poisoned |-> None]

\* Mutant of Boss::attack: the damage is not floored at 1.
attack_unfloored(self, enemy) ==
    [enemy EXCEPT !.hitpoints = @ - (self.damage - enemy.armor)]

\* Boss::attack: the enemy wizard after the blow.
attack(self, enemy) ==
    LET adjusted_damage == IF self.damage - enemy.armor <= 0
                           THEN 1
                           ELSE self.damage - enemy.armor
    IN  [enemy EXCEPT !.hitpoints = @ - adjusted_damage]

\* Mutant of Boss::apply_effect: a poison tick takes 2 hitpoints, not 3.
Boss_apply_effect_weak(self) ==
    IF is_some(self.poisoned)
    THEN LET poison_timer == self.poisoned[1] - 1
         IN  [self EXCEPT !.hitpoints = @ - 2,
                          !.poisoned = IF poison_timer = 0
                                       THEN None
                                       ELSE Some(poison_timer)]
    ELSE self

\* Mutant of Boss::apply_effect: the poison is cleared one tick late, so a
\* timer of 0 is stored.
Boss_apply_effect_stores_zero(self) ==
    IF is_some(self.poisoned)
    THEN LET poison_timer == self.poisoned[1] - 1
         IN  [self EXCEPT !.hitpoints = @ - 3,
                          !.poisoned = IF poison_timer < 0
                                       THEN None
                                       ELSE Some(poison_timer)]
    ELSE self

\* Boss::apply_effect
Boss_apply_effect(self) ==
    IF is_some(self.poisoned)
    THEN LET poison_timer == self.poisoned[1] - 1
         IN  [self EXCEPT !.hitpoints = @ - 3,
                          !.poisoned = IF poison_timer = 0
                                       THEN None
                                       ELSE Some(poison_timer)]
    ELSE self

-----------------------------------------------------------------------------
(* Wizard *)

\* Mutant of update_possible_spells: the mana is not compared, only the
\* ongoing effects decide.
update_possible_spells_timers_only(self, enemy) ==
    [self EXCEPT !.possible_spells =
        {s \in Spell :
            /\ s = "Shield" => self.shielded \in {None, Some(1)}
            /\ s = "Poison" => enemy.poisoned \in {None, Some(1)}
            /\ s = "Recharge" => self.recharging \in {None, Some(1)}}]

\* Mutant of update_possible_spells: only the mana is compared, an ongoing
\* effect does not block its spell.
update_possible_spells_mana_only(self, enemy) ==
    [self EXCEPT !.possible_spells =
        (@ \cup {s \in Spell : self.mana >= get_mana(s)})
           \ {s \in Spell : self.mana < get_mana(s)}]

\* Mutant of update_possible_spells: spells are inserted when legal but
\* never removed when they stop being legal.
update_possible_spells_insert_only(self, enemy) ==
    [self EXCEPT !.possible_spells =
        @ \cup {s \in Spell :
                  /\ self.mana >= get_mana(s)
                  /\ s = "Shield" => self.shielded \in {None, Some(1)}
                  /\ s = "Poison" => enemy.poisoned \in {None, Some(1)}
                  /\ s = "Recharge" => self.recharging \in {None, Some(1)}}]

\* Wizard::update_possible_spells: five insert-or-remove steps on the stored set.
update_possible_spells(self, enemy) ==
    LET s0 == self.possible_spells
        s1 == IF self.mana >= get_mana("MagicMissile")
              THEN s0 \cup {"MagicMissile"} ELSE s0 \ {"MagicMissile"}
        s2 == IF self.mana >= get_mana("Drain")
              THEN s1 \cup {"Drain"} ELSE s1 \ {"Drain"}
        s3 == IF self.mana >= get_mana("Shield")
                 /\ (is_none(self.shielded) \/ self.shielded = Some(1))
              THEN s2 \cup {"Shield"} ELSE s2 \ {"Shield"}
        s4 == IF self.mana >= get_mana("Poison")
                 /\ (is_none(enemy.poisoned) \/ enemy.poisoned = Some(1))
              THEN s3 \cup {"Poison"} ELSE s3 \ {"Poison"}
        s5 == IF self.mana >= get_mana("Recharge")
                 /\ (is_none(self.recharging) \/ self.recharging = Some(1))
              THEN s4 \cup {"Recharge"} ELSE s4 \ {"Recharge"}
    IN  [self EXCEPT !.possible_spells = s5]

\* Wizard::new: the legal set is first computed against Boss::default().
Wizard_new(hitpoints, mana) ==
    update_possible_spells(
        [hitpoints |-> hitpoints, armor |-> 0, mana |-> mana,
         shielded |-> None, recharging |-> None, possible_spells |-> {}],
        Boss_default)

\* The five casts.  Each yields the wizard and the boss after the cast and
\* whether the cast panicked (the mana is debited before the panic).
magic_missile(self, enemy) ==
    [wizard |-> [self EXCEPT !.mana = @ - get_mana("MagicMissile")],
     boss |-> [enemy EXCEPT !.hitpoints = @ - 4],
     panic |-> FALSE]

\* Mutant of drain: the wizard is healed by 3.
drain_heals_3(self, enemy) ==
    [wizard |-> [self EXCEPT !.mana = @ - get_mana("Drain"),
                             !.hitpoints = @ + 3],
     boss |-> [enemy EXCEPT !.hitpoints = @ - 2],
     panic |-> FALSE]

\* Mutant of drain: the boss is hurt but the wizard is not healed.
drain_no_heal(self, enemy) ==
    [wizard |-> [self EXCEPT !.mana = @ - get_mana("Drain")],
     boss |-> [enemy EXCEPT !.hitpoints = @ - 2],
     panic |-> FALSE]

drain(self, enemy) ==
    [wizard |-> [self EXCEPT !.mana = @ - get_mana("Drain"),
                             !.hitpoints = @ + 2],
     boss |-> [enemy EXCEPT !.hitpoints = @ - 2],
     panic |-> FALSE]

\* Mutant of shield: the timer starts at 5.
shield_five(self, enemy) ==
    LET debited == [self EXCEPT !.mana = @ - get_mana("Shield")]
    IN  IF is_some(self.shielded)
        THEN [wizard |-> debited, boss |-> enemy, panic |-> TRUE]
        ELSE [wizard |-> [debited EXCEPT !.shielded = Some(5), !.armor = 7],
              boss |-> enemy, panic |-> FALSE]

\* Mutant of shield: the armor granted is 6.
shield_thin(self, enemy) ==
    LET debited == [self EXCEPT !.mana = @ - get_mana("Shield")]
    IN  IF is_some(self.shielded)
        THEN [wizard |-> debited, boss |-> enemy, panic |-> TRUE]
        ELSE [wizard |-> [debited EXCEPT !.shielded = Some(6), !.armor = 6],
              boss |-> enemy, panic |-> FALSE]

shield(self, enemy) ==
    LET debited == [self EXCEPT !.mana = @ - get_mana("Shield")]
    IN  IF is_some(self.shielded)
        THEN [wizard |-> debited, boss |-> enemy, panic |-> TRUE]
        ELSE [wizard |-> [debited EXCEPT !.shielded = Some(6), !.armor = 7],
              boss |-> enemy, panic |-> FALSE]

\* Mutant of poison: the timer starts at 5.
poison_short(self, enemy) ==
    LET debited == [self EXCEPT !.mana = @ - get_mana("Poison")]
    IN  IF is_some(enemy.poisoned)
        THEN [wizard |-> debited, boss |-> enemy, panic |-> TRUE]
        ELSE [wizard |-> debited,
              boss |-> [enemy EXCEPT !.poisoned = Some(5)], panic |-> FALSE]

poison(self, enemy) ==
    LET debited == [self EXCEPT !.mana = @ - get_mana("Poison")]
    IN  IF is_some(enemy.poisoned)
        THEN [wizard |-> debited, boss |-> enemy, panic |-> TRUE]
        ELSE [wizard |-> debited,
              boss |-> [enemy EXCEPT !.poisoned = Some(6)], panic |-> FALSE]

\* Mutant of recharge: the timer starts at 6.
recharge_long(self, enemy) ==
    LET debited == [self EXCEPT !.mana = @ - get_mana("Recharge")]
    IN  IF is_some(self.recharging)
        THEN [wizard |-> debited, boss |-> enemy, panic |-> TRUE]
        ELSE [wizard |-> [debited EXCEPT !.recharging = Some(6)],
              boss |-> enemy, panic |-> FALSE]

recharge(self, enemy) ==
    LET debited == [self EXCEPT !.mana = @ - get_mana("Recharge")]
    IN  IF is_some(self.recharging)
        THEN [wizard |-> debited, boss |-> enemy, panic |-> TRUE]
        ELSE [wizard |-> [debited EXCEPT !.recharging = Some(5)],
              boss |-> enemy, panic |-> FALSE]

\* Mutant of the recharge tick: the armor worn adds to the mana gained.
recharge_tick_with_armor(self) ==
    LET recharge_timer == self.recharging[1] - 1
    IN  IF is_some(self.recharging)
        THEN [self EXCEPT !.mana = @ + 101 + self.armor,
                          !.recharging = IF recharge_timer = 0
                                         THEN None
                                         ELSE Some(recharge_timer)]
        ELSE self

\* Mutant of the shield tick: the timer loses 2 per tick.
shield_tick_by_two(self) ==
    LET shield_timer == self.shielded[1] - 2
    IN  IF is_some(self.shielded)
        THEN IF shield_timer = 0
             THEN [self EXCEPT !.armor = 0, !.shielded = None]
             ELSE [self EXCEPT !.shielded = Some(shield_timer)]
        ELSE self

\* The two halves of Wizard::apply_effect: the `if let` on shielded and the
\* `if let` on recharging.
shield_tick(self) ==
    LET shield_timer == self.shielded[1] - 1
    IN  IF is_some(self.shielded)
        THEN IF shield_timer = 0
             THEN [self EXCEPT !.armor = 0, !.shielded = None]
             ELSE [self EXCEPT !.shielded = Some(shield_timer)]
        ELSE self

recharge_tick(self) ==
    LET recharge_timer == self.recharging[1] - 1
    IN  IF is_some(self.recharging)
        THEN [self EXCEPT !.mana = @ + 101,
                          !.recharging = IF recharge_timer = 0
                                         THEN None
                                         ELSE Some(recharge_timer)]
        ELSE self

\* Mutant of Wizard::apply_effect: an expiring shield clears its timer but
\* leaves the armor on.
Wizard_apply_effect_keeps_armor(self) ==
    LET shield_timer == self.shielded[1] - 1
        w1 == IF is_some(self.shielded)
              THEN IF shield_timer = 0
                   THEN [self EXCEPT !.shielded = None]
                   ELSE [self EXCEPT !.shielded = Some(shield_timer)]
              ELSE self
        recharge_timer == w1.recharging[1] - 1
    IN  IF is_some(w1.recharging)
        THEN [w1 EXCEPT !.mana = @ + 101,
                        !.recharging = IF recharge_timer = 0
                                       THEN None
                                       ELSE Some(recharge_timer)]
        ELSE w1

\* Wizard::apply_effect: the shield tick, then the recharge tick.
Wizard_apply_effect(self) ==
    recharge_tick(shield_tick(self))

-----------------------------------------------------------------------------
(* Battle of rpg.rs: the four fine-grained transitions.  Each yields the    *)
(* battle after the call and the value returned ("panic" when it unwound). *)

Battle_new(wizard, boss, hard_mode) ==
    [wizard |-> wizard, boss |-> boss, hard_mode |-> hard_mode,
     mana_used |-> 0, spells_used |-> << >>, outcome |-> None]

\* The match of wizard_turn_cast_spell / wizard_turn on the chosen spell.
dispatch(spell, wizard, boss) ==
    CASE spell = "MagicMissile" -> magic_missile(wizard, boss)
      [] spell = "Drain" -> drain(wizard, boss)
      [] spell = "Shield" -> shield(wizard, boss)
      [] spell = "Poison" -> poison(wizard, boss)
      [] spell = "Recharge" -> recharge(wizard, boss)

\* Both sides' ongoing effects: the wizard's first, then the boss's.
apply_effects(self) ==
    [self EXCEPT !.wizard = Wizard_apply_effect(@),
                 !.boss = Boss_apply_effect(@)]

\* Mutant of the check "boss lost": a boss at exactly 0 is not yet beaten.
check_boss_lost_strict(self, some_true, none) ==
    IF self.boss.hitpoints < 0
    THEN [battle |-> [self EXCEPT !.outcome = Some(TRUE)], ret |-> some_true]
    ELSE [battle |-> self, ret |-> none]

\* The check "boss lost" that ends three of the transitions.
check_boss_lost(self, some_true, none) ==
    IF self.boss.hitpoints <= 0
    THEN [battle |-> [self EXCEPT !.outcome = Some(TRUE)], ret |-> some_true]
    ELSE [battle |-> self, ret |-> none]

\* Mutant of wizard_turn_apply_effects: the effects are applied before the
\* hard-mode damage and its loss check.
wizard_turn_apply_effects_tick_first(self) ==
    LET ticked == apply_effects(self)
        hurt == IF self.hard_mode
                THEN [ticked EXCEPT !.wizard.hitpoints = @ - 1]
                ELSE ticked
    IN  IF self.hard_mode /\ hurt.wizard.hitpoints <= 0
        THEN [battle |-> [hurt EXCEPT !.outcome = Some(FALSE)],
              ret |-> "Some(false)"]
        ELSE check_boss_lost(hurt, "Some(true)", "None")

wizard_turn_apply_effects(self) ==
    LET hurt == IF self.hard_mode
                THEN [self EXCEPT !.wizard.hitpoints = @ - 1]
                ELSE self
    IN  IF self.hard_mode /\ hurt.wizard.hitpoints <= 0
        THEN [battle |-> [hurt EXCEPT !.outcome = Some(FALSE)],
              ret |-> "Some(false)"]
        ELSE check_boss_lost(apply_effects(hurt), "Some(true)", "None")

\* Mutant of the cast: the cost is added to mana_used but the spell is not
\* logged.
cast_and_account_unlogged(self, spell) ==
    LET cast == dispatch(spell, self.wizard, self.boss)
        after == [self EXCEPT !.wizard = cast.wizard, !.boss = cast.boss]
    IN  IF cast.panic
        THEN [battle |-> after, ret |-> "panic"]
        ELSE check_boss_lost(
                 [after EXCEPT !.mana_used = @ + get_mana(spell)],
                 "Ok(Some(true))", "Ok(None)")

\* The part of a cast after the legality check: dispatch, accounting, check.
cast_and_account(self, spell) ==
    LET cast == dispatch(spell, self.wizard, self.boss)
        after == [self EXCEPT !.wizard = cast.wizard, !.boss = cast.boss]
    IN  IF cast.panic
        THEN [battle |-> after, ret |-> "panic"]
        ELSE check_boss_lost(
                 [after EXCEPT !.mana_used = @ + get_mana(spell),
                               !.spells_used = Append(@, spell)],
                 "Ok(Some(true))", "Ok(None)")

wizard_turn_cast_spell(self, spell) ==
    IF spell \notin self.wizard.possible_spells
    THEN [battle |-> self, ret |-> "Err"]
    ELSE cast_and_account(self, spell)

\* Mutant of boss_turn_apply_effects: the hard-mode step of the wizard's
\* half is taken here too.
boss_turn_apply_effects_hard_mode(self) ==
    wizard_turn_apply_effects(self)

\* Mutant of boss_turn_apply_effects: the effects are applied twice.
boss_turn_apply_effects_twice(self) ==
    check_boss_lost(apply_effects(apply_effects(self)), "Some(true)", "None")

boss_turn_apply_effects(self) ==
    check_boss_lost(apply_effects(self), "Some(true)", "None")

boss_turn_attack(self) ==
    LET hit == [self EXCEPT !.wizard = attack(self.boss, self.wizard)]
    IN  IF hit.wizard.hitpoints <= 0
        THEN [battle |-> [hit EXCEPT !.outcome = Some(FALSE)],
              ret |-> "Some(false)"]
        ELSE [battle |-> [hit EXCEPT !.wizard =
                                 update_possible_spells(hit.wizard, hit.boss)],
              ret |-> "None"]

-----------------------------------------------------------------------------
(* Battle of game.rs: the coarse pair. *)

\* Mutant of wizard_turn: hard mode is ignored.
wizard_turn_no_hard_mode(self, spell) ==
    IF spell \notin self.wizard.possible_spells
    THEN [battle |-> self, ret |-> "Err"]
    ELSE cast_and_account(apply_effects(self), spell)

\* Mutant of wizard_turn: the hard-mode damage comes before the legality check.
wizard_turn_hurt_first(self, spell) ==
    LET hurt == IF self.hard_mode
                THEN [self EXCEPT !.wizard.hitpoints = @ - 1]
                ELSE self
    IN  IF spell \notin self.wizard.possible_spells
        THEN [battle |-> hurt, ret |-> "Err"]
        ELSE IF self.hard_mode /\ hurt.wizard.hitpoints <= 0
             THEN [battle |-> [hurt EXCEPT !.outcome = Some(FALSE)],
                   ret |-> "Ok(Some(false))"]
             ELSE cast_and_account(apply_effects(hurt), spell)

wizard_turn(self, spell) ==
    IF spell \notin self.wizard.possible_spells
    THEN [battle |-> self, ret |-> "Err"]
    ELSE LET hurt == IF self.hard_mode
                     THEN [self EXCEPT !.wizard.hitpoints = @ - 1]
                     ELSE self
         IN  IF self.hard_mode /\ hurt.wizard.hitpoints <= 0
             THEN [battle |-> [hurt EXCEPT !.outcome = Some(FALSE)],
                   ret |-> "Ok(Some(false))"]
             ELSE cast_and_account(apply_effects(hurt), spell)

boss_turn(self) ==
    LET ticked == apply_effects(self)
    IN  IF ticked.boss.hitpoints <= 0
        THEN [battle |-> [ticked EXCEPT !.outcome = Some(TRUE)],
              ret |-> "Some(true)"]
        ELSE LET hit == [ticked EXCEPT !.wizard = attack(ticked.boss, ticked.wizard)]
             IN  IF hit.wizard.hitpoints <= 0
                 THEN [battle |-> [hit EXCEPT !.outcome = Some(FALSE)],
                       ret |-> "Some(false)"]
                 ELSE [battle |-> [hit EXCEPT !.wizard =
                                   update_possible_spells(hit.wizard, hit.boss)],
                       ret |-> "None"]

-----------------------------------------------------------------------------
(* App of main.rs: the driver.  Only App.game matters to the engine; the    *)
(* other fields are display state.  Every wrapper returns at once when the *)
(* outcome is set ("return": no engine call was made).                     *)

App_wizard_turn_apply_effects(game_) ==
    IF is_some(game_.outcome)
    THEN [battle |-> game_, ret |-> "return"]
    ELSE wizard_turn_apply_effects(game_)

App_wizard_turn_cast_spell(game_, spell) ==
    IF is_some(game_.outcome)
    THEN [battle |-> game_, ret |-> "return"]
    ELSE wizard_turn_cast_spell(game_, spell)

App_boss_turn_apply_effects(game_) ==
    IF is_some(game_.outcome)
    THEN [battle |-> game_, ret |-> "return"]
    ELSE boss_turn_apply_effects(game_)

\* Mutant of App::boss_turn_attack: no early return when the game is over.
App_boss_turn_attack_unguarded(game_) ==
    boss_turn_attack(game_)

App_boss_turn_attack(game_) ==
    IF is_some(game_.outcome)
    THEN [battle |-> game_, ret |-> "return"]
    ELSE boss_turn_attack(game_)

\* step_game's match on App.spell_selected (0..5; the select_* handlers keep
\* it in that range).
spell_cast(spell_selected) ==
    CASE spell_selected = 0 -> "MagicMissile"
      [] spell_selected = 1 -> "Drain"
      [] spell_selected = 2 -> "Poison"
      [] spell_selected = 3 -> "Shield"
      [] spell_selected \in {4, 5} -> "Recharge"

\* step_game's two early returns: the selected spell is unavailable, or the
\* game is over.
step_game_returns(game_, spell_selected) ==
    \/ spell_cast(spell_selected) \notin game_.wizard.possible_spells
    \/ is_some(game_.outcome)

\* A wrapper applied to the result of the previous one; a panic ends the run.
then_(r, next_battle) ==
    IF r.ret = "panic" THEN r ELSE next_battle

\* step_game as a whole: the four wrappers in order.
step_game(game_, spell_selected) ==
    IF step_game_returns(game_, spell_selected)
    THEN [battle |-> game_, ret |-> "return"]
    ELSE LET r1 == App_wizard_turn_cast_spell(game_, spell_cast(spell_selected))
             r2 == then_(r1, App_boss_turn_apply_effects(r1.battle))
             r3 == then_(r2, App_boss_turn_attack(r2.battle))
         IN  then_(r3, App_wizard_turn_apply_effects(r3.battle))

-----------------------------------------------------------------------------
(* The coarse round of game.rs: wizard_turn, then boss_turn, until the      *)
(* engine reports an outcome.  A rejected spell (Err) ends the round       *)
(* without a boss turn.                                                    *)

step(self, spell) ==
    IF is_some(self.outcome)
    THEN [battle |-> self, ret |-> "return"]
    ELSE LET r1 == wizard_turn(self, spell)
         IN  IF r1.ret \in {"Err", "panic"} \/ is_some(r1.battle.outcome)
             THEN r1
             ELSE boss_turn(r1.battle)

-----------------------------------------------------------------------------
(* State machine *)

\* Battle::new over freshly built combatants, for both engines.
InitBattles ==
    \E hitpoints \in WizardHitpoints, mana \in WizardMana,
       boss_hitpoints \in BossHitpoints, damage \in BossDamage,
       hard_mode \in BOOLEAN :
        /\ battle = Battle_new(Wizard_new(hitpoints, mana),
                               Boss_new(boss_hitpoints, damage), hard_mode)
        /\ game = battle
        /\ start = [hitpoints |-> hitpoints, mana |-> mana,
                    boss_hitpoints |-> boss_hitpoints]

NoCall == [op |-> "new", spell |-> "", ret |-> ""]

Init ==
    /\ InitBattles
    /\ mode \in {"any", "app", "coarse"}
    /\ pc = CASE mode = "any" -> "any"
              [] mode = "app" -> "run"
              [] mode = "coarse" -> "wizard_turn"
    /\ call = NoCall
    /\ calls = 0

\* A panic unwinds through main: the process is gone.
Running == call.ret # "panic"

(* Any caller of the library: the four public transitions in any order. *)

AnyCall(op, spell, r) ==
    /\ mode = "any"
    /\ Running
    /\ calls < MaxCalls
    /\ battle' = r.battle
    /\ call' = [op |-> op, spell |-> spell, ret |-> r.ret]
    /\ calls' = calls + 1
    /\ UNCHANGED <<mode, pc, game, start>>

Any_wizard_turn_apply_effects ==
    AnyCall("wizard_turn_apply_effects", "", wizard_turn_apply_effects(battle))

Any_wizard_turn_cast_spell(spell) ==
    AnyCall("wizard_turn_cast_spell", spell, wizard_turn_cast_spell(battle, spell))

Any_boss_turn_apply_effects ==
    AnyCall("boss_turn_apply_effects", "", boss_turn_apply_effects(battle))

Any_boss_turn_attack ==
    AnyCall("boss_turn_attack", "", boss_turn_attack(battle))

(* App: run() applies the wizard's effects once, then every Enter key runs *)
(* step_game, shown here wrapper by wrapper.                               *)

AppCall(at, op, spell, r, next_pc) ==
    /\ mode = "app"
    /\ Running
    /\ pc \in at
    /\ battle' = r.battle
    /\ call' = [op |-> op, spell |-> spell, ret |-> r.ret]
    /\ pc' = next_pc
    /\ UNCHANGED <<mode, game, calls, start>>

App_step_game(spell_selected) ==
    IF step_game_returns(battle, spell_selected)
    THEN AppCall({"idle"}, "step_game", spell_cast(spell_selected),
                 [battle |-> battle, ret |-> "return"], "idle")
    ELSE AppCall({"idle"}, "wizard_turn_cast_spell", spell_cast(spell_selected),
                 App_wizard_turn_cast_spell(battle, spell_cast(spell_selected)),
                 "boss_turn_apply_effects")

App_step_boss_turn_apply_effects ==
    AppCall({"boss_turn_apply_effects"}, "boss_turn_apply_effects", "",
            App_boss_turn_apply_effects(battle), "boss_turn_attack")

App_step_boss_turn_attack ==
    AppCall({"boss_turn_attack"}, "boss_turn_attack", "",
            App_boss_turn_attack(battle), "wizard_turn_apply_effects")

App_step_wizard_turn_apply_effects ==
    AppCall({"run", "wizard_turn_apply_effects"}, "wizard_turn_apply_effects", "",
            App_wizard_turn_apply_effects(battle), "idle")

(* The coarse caller: wizard_turn and boss_turn in alternation, stopping   *)
(* when an outcome is reported; a rejected spell leaves the turn with the  *)
(* wizard.                                                                 *)

CoarseCall(at, op, spell, r, next_pc) ==
    /\ mode = "coarse"
    /\ Running
    /\ pc = at
    /\ game' = r.battle
    /\ call' = [op |-> op, spell |-> spell, ret |-> r.ret]
    /\ pc' = IF is_some(r.battle.outcome) THEN "done"
             ELSE IF r.ret = "Err" THEN pc
             ELSE next_pc
    /\ UNCHANGED <<mode, battle, calls, start>>

Coarse_wizard_turn(spell) ==
    CoarseCall("wizard_turn", "wizard_turn", spell, wizard_turn(game, spell),
               "boss_turn")

Coarse_boss_turn ==
    CoarseCall("boss_turn", "boss_turn", "", boss_turn(game), "wizard_turn")

Next ==
    \/ Any_wizard_turn_apply_effects
    \/ \E spell \in Spell : Any_wizard_turn_cast_spell(spell)
    \/ Any_boss_turn_apply_effects
    \/ Any_boss_turn_attack
    \/ \E spell_selected \in 0..5 : App_step_game(spell_selected)
    \/ App_step_boss_turn_apply_effects
    \/ App_step_boss_turn_attack
    \/ App_step_wizard_turn_apply_effects
    \/ \E spell \in Spell : Coarse_wizard_turn(spell)
    \/ Coarse_boss_turn

Spec == Init /\ [][Next]_vars

(* Both orchestrations side by side on the same inputs: after run()'s      *)
(* first effect application, every chosen spell goes to step_game on the   *)
(* rpg.rs battle and to one coarse round on the game.rs battle.            *)

ParityInit ==
    /\ InitBattles
    /\ mode = "parity"
    /\ pc = "run"
    /\ call = NoCall
    /\ calls = 0

Parity_run ==
    /\ mode = "parity"
    /\ pc = "run"
    /\ battle' = App_wizard_turn_apply_effects(battle).battle
    /\ pc' = "idle"
    /\ call' = [op |-> "run", spell |-> "", ret |-> ""]
    /\ UNCHANGED <<mode, game, calls, start>>

Parity_step(spell_selected) ==
    /\ mode = "parity"
    /\ pc = "idle"
    /\ battle' = step_game(battle, spell_selected).battle
    /\ game' = step(game, spell_cast(spell_selected)).battle
    /\ call' = [op |-> "step", spell |-> spell_cast(spell_selected),
                ret |-> step(game, spell_cast(spell_selected)).ret]
    /\ UNCHANGED <<mode, pc, calls, start>>

ParityNext ==
    \/ Parity_run
    \/ \E spell_selected \in 0..5 : Parity_step(spell_selected)

SpecParity == ParityInit /\ [][ParityNext]_vars

-----------------------------------------------------------------------------
(* Properties *)

\* The legality rule as the specification words it: enough mana and, for
\* Shield, Poison and Recharge, the effect absent or on its last tick.
LegalSpells(wizard, boss) ==
    {s \in Spell :
        /\ wizard.mana >= get_mana(s)
        /\ s = "Shield" => wizard.shielded \in {None, Some(1)}
        /\ s = "Poison" => boss.poisoned \in {None, Some(1)}
        /\ s = "Recharge" => wizard.recharging \in {None, Some(1)}}

Accepted == {"Ok(None)", "Ok(Some(true))", "Ok(Some(false))"}

Scenario == <<"Recharge", "Shield", "Drain", "Poison", "MagicMissile">>

ScenarioBattle ==
    /\ mode = "coarse"
    /\ start = [hitpoints |-> 10, mana |-> 250, boss_hitpoints |-> 14]
    /\ game.boss.damage = 8
    /\ ~game.hard_mode

\* C1: in the coarse battle Wizard(10, 250) against Boss(14, 8), normal mode,
\* each wizard_turn with the next spell of Recharge, Shield, Drain, Poison,
\* MagicMissile is accepted, and once the fifth round is over (the boss turn
\* after MagicMissile has run) the outcome is WizardWon.
C1_Scenario ==
    [][ScenarioBattle =>
        /\ \A n \in 0..4 :
              /\ game.spells_used = SubSeq(Scenario, 1, n)
              /\ call'.op = "wizard_turn"
              /\ call'.spell = Scenario[n + 1]
              => /\ call'.ret \in Accepted
                 /\ game'.spells_used = SubSeq(Scenario, 1, n + 1)
        /\ game'.spells_used = Scenario /\ pc' # "boss_turn"
              => game'.outcome = Some(TRUE)]_vars

C1_Witness ==
    /\ ScenarioBattle
    /\ game.spells_used = Scenario
    /\ call.op = "boss_turn"
    /\ game.outcome = Some(TRUE)
    /\ game.wizard.hitpoints = 1
    /\ game.boss.hitpoints = -1

\* C2: once the outcome of the rpg.rs battle is set, no later call of the
\* four transitions changes it.
C2_OutcomeWriteOnce ==
    [][is_some(battle.outcome) => battle'.outcome = battle.outcome]_vars

\* C3: a cast of a spell outside the wizard's legal set returns the legality
\* error and leaves the whole battle as it was, in wizard_turn_cast_spell and
\* in the coarse wizard_turn (no hard-mode damage, no effect tick).
C3_IllegalCastRejected ==
    [][/\ call'.op = "wizard_turn_cast_spell"
          /\ call'.spell \notin battle.wizard.possible_spells
          => call'.ret = "Err" /\ battle' = battle
       /\ call'.op = "wizard_turn"
          /\ call'.spell \notin game.wizard.possible_spells
          => call'.ret = "Err" /\ game' = game]_vars

C3_Witness ==
    /\ call.op = "wizard_turn"
    /\ call.ret = "Err"
    /\ game.hard_mode
    /\ is_some(game.wizard.recharging)
    /\ is_some(game.wizard.shielded)

\* C4: wizard_turn_cast_spell accepts a spell only when the wizard's mana at
\* the call is at least the spell's cost; with less mana it is rejected.
C4_ManaPrecondition ==
    [][call'.op = "wizard_turn_cast_spell" /\ call'.ret \in Accepted
       => battle.wizard.mana >= get_mana(call'.spell)]_vars

\* C5: under the round protocol (the App driver on rpg.rs, the alternation
\* of wizard_turn and boss_turn on game.rs, both stopping at an outcome) no
\* cast reaches the panic of shield(), poison() or recharge().
C5_NoPanicUnderProtocol ==
    mode \in {"app", "coarse"} => call.ret # "panic"

Count(seq, x) == Cardinality({i \in 1..Len(seq) : seq[i] = x})

\* A second Shield accepted by the App's cast: the cached set held Shield
\* because the old shield's timer was 1 at the last recomputation.
C5_Witness ==
    /\ mode = "app"
    /\ call.op = "wizard_turn_cast_spell"
    /\ call.spell = "Shield"
    /\ call.ret = "Ok(None)"
    /\ Count(battle.spells_used, "Shield") = 2
    /\ battle.wizard.shielded = Some(6)

\* C6: right after a boss_turn_attack (or coarse boss_turn) that leaves the
\* wizard alive, possible_spells is exactly the set given by the legality
\* rule on the current mana and the three timers.
C6_RecomputedSetIsRule ==
    /\ call.op = "boss_turn_attack" /\ call.ret = "None"
       => battle.wizard.possible_spells = LegalSpells(battle.wizard, battle.boss)
    /\ call.op = "boss_turn" /\ call.ret = "None"
       => game.wizard.possible_spells = LegalSpells(game.wizard, game.boss)

\* A recomputation that dropped spells (mana spent, effects running) and
\* kept Shield through the last-tick rule.
C6_Witness ==
    /\ call.op = "boss_turn_attack"
    /\ call.ret = "None"
    /\ battle.wizard.shielded = Some(1)
    /\ is_some(battle.boss.poisoned)
    /\ "Shield" \in battle.wizard.possible_spells
    /\ "Poison" \notin battle.wizard.possible_spells
    /\ "Recharge" \notin battle.wizard.possible_spells

\* C7: after each of the four transitions, while the outcome is undecided,
\* possible_spells equals the legality rule evaluated on the state reached.
C7_CacheAlwaysFresh ==
    /\ call.op \in {"wizard_turn_apply_effects", "wizard_turn_cast_spell",
                    "boss_turn_apply_effects", "boss_turn_attack"}
    /\ call.ret \notin {"return", "panic"}
    /\ is_none(battle.outcome)
    => battle.wizard.possible_spells = LegalSpells(battle.wizard, battle.boss)

\* The battle once the wizard's half of a round has taken the hard-mode
\* damage and ticked both sides' effects.
AfterTick(b) ==
    apply_effects(IF b.hard_mode
                  THEN [b EXCEPT !.wizard.hitpoints = @ - 1]
                  ELSE b)

WonAtTick(before, after) ==
    /\ after.outcome = Some(TRUE)
    /\ after.wizard.mana = AfterTick(before).wizard.mana
    /\ after.wizard.hitpoints = AfterTick(before).wizard.hitpoints
    /\ after.mana_used = before.mana_used
    /\ after.spells_used = before.spells_used

\* C8: when the effect tick of the wizard's half of a round takes the boss
\* to 0 or below, the outcome becomes WizardWon and the rest of the round
\* does not run: no spell is dispatched, and mana, wizard hitpoints,
\* mana_used and spells_used stay as they were right after the tick.  For
\* the App's sequence and for the coarse wizard_turn.
C8_WinByEffectsShortCircuits ==
    [][/\ mode = "app"
          /\ call'.op = "wizard_turn_apply_effects"
          /\ call'.ret \notin {"return", "Some(false)"}
          /\ AfterTick(battle).boss.hitpoints <= 0
          => WonAtTick(battle, battle')
       /\ mode = "app" /\ is_some(battle.outcome)
          => battle' = battle
       /\ mode = "coarse"
          /\ call'.op = "wizard_turn"
          /\ call'.ret \notin {"Err", "Ok(Some(false))"}
          /\ AfterTick(game).boss.hitpoints <= 0
          => WonAtTick(game, game')]_vars

OutcomeAgrees(b) ==
    /\ b.outcome = Some(TRUE) <=> b.boss.hitpoints <= 0
    /\ b.outcome = Some(FALSE) <=> b.wizard.hitpoints <= 0
    /\ is_none(b.outcome) <=> b.wizard.hitpoints > 0 /\ b.boss.hitpoints > 0

\* C9: under the round protocol, between any two operations the outcome is
\* WizardWon exactly when the boss is at 0 or below, BossWon exactly when
\* the wizard is, and undecided exactly when both are above 0.
C9_OutcomeAgreesWithHitpoints ==
    /\ mode = "app" => OutcomeAgrees(battle)
    /\ mode = "coarse" => OutcomeAgrees(game)

\* A hard-mode loss: the wizard's last hitpoint fades at the start of a turn.
C9_Witness ==
    /\ mode = "app"
    /\ call.op = "wizard_turn_apply_effects"
    /\ call.ret = "Some(false)"
    /\ battle.wizard.hitpoints = 0
    /\ battle.boss.hitpoints > 0
    /\ Len(battle.spells_used) >= 2

\* C10: after run() and any number of chosen spells, the outcome of the
\* fine-grained battle equals the outcome of the coarse battle.
C10_Parity ==
    pc = "idle" => battle.outcome = game.outcome

\* C10 as amended: a decided coarse battle has the fine-grained battle's
\* outcome; where the two differ the coarse battle is still undecided, the
\* fine-grained one was decided by the effect application that opens the
\* next wizard turn, and any spell the coarse wizard_turn accepts next
\* yields that same outcome.
C10_ParityUpToOneTurn ==
    pc = "idle" =>
        /\ is_some(game.outcome) => battle.outcome = game.outcome
        /\ is_none(game.outcome) =>
              battle = wizard_turn_apply_effects(game).battle
        /\ battle.outcome # game.outcome =>
              \A spell \in game.wizard.possible_spells :
                  wizard_turn(game, spell).battle.outcome = battle.outcome

C10_Witness ==
    /\ mode = "parity"
    /\ pc = "idle"
    /\ battle.outcome = Some(FALSE)
    /\ is_none(game.outcome)
    /\ game.wizard.possible_spells # {}
    /\ Len(game.spells_used) >= 2

ArmorMatchesShield(wizard) ==
    /\ wizard.armor \in {0, 7}
    /\ wizard.armor = 7 <=> is_some(wizard.shielded)
    /\ wizard.armor = 0 <=> is_none(wizard.shielded)

\* C11: in every state reached by any sequence of transition calls (the four
\* of rpg.rs in any order, the App's sequence, the coarse pair) the wizard's
\* armor is 7 exactly when shielded is present and 0 otherwise.
C11_ArmorIffShielded ==
    /\ ArmorMatchesShield(battle.wizard)
    /\ ArmorMatchesShield(game.wizard)

\* A shield that was cast and has run out: the sixth effect application
\* after the cast cleared the timer and took the armor off.
C11_Witness ==
    /\ mode = "app"
    /\ call.op = "wizard_turn_apply_effects"
    /\ call.ret = "None"
    /\ Count(battle.spells_used, "Shield") = 1
    /\ is_none(battle.wizard.shielded)
    /\ battle.wizard.armor = 0

TimersInRange(b) ==
    /\ b.wizard.shielded \in {None} \cup {Some(t) : t \in 1..6}
    /\ b.wizard.recharging \in {None} \cup {Some(t) : t \in 1..5}
    /\ b.boss.poisoned \in {None} \cup {Some(t) : t \in 1..6}

\* C12: in every reachable state the shield timer is absent or in 1..6, the
\* recharge timer absent or in 1..5, the poison timer absent or in 1..6; no
\* timer is stored as 0 or as a negative number.
C12_TimerRanges ==
    /\ TimersInRange(battle)
    /\ TimersInRange(game)

\* The poison on its last tick while a recharge is still running.
C12_Witness ==
    /\ mode = "app"
    /\ battle.boss.poisoned = Some(1)
    /\ is_some(battle.wizard.recharging)
    /\ is_none(battle.outcome)

\* C13: every boss_turn_attack takes max(1, damage - armor) from the
\* wizard's hitpoints, without clamping the result at 0, and the attack
\* leaves armor, mana, both wizard timers and every boss field as they were.
\* (The legal set is not written by the attack itself: boss_turn_attack
\* recomputes it afterwards when the wizard survives, and leaves it alone
\* when the wizard falls.)
C13_BossAttackDamage ==
    [][call'.op = "boss_turn_attack" /\ call'.ret # "return" =>
        LET damage == battle.boss.damage - battle.wizard.armor
            dealt == IF damage >= 1 THEN damage ELSE 1
        IN  /\ battle'.wizard.hitpoints = battle.wizard.hitpoints - dealt
            /\ battle'.wizard.armor = battle.wizard.armor
            /\ battle'.wizard.mana = battle.wizard.mana
            /\ battle'.wizard.shielded = battle.wizard.shielded
            /\ battle'.wizard.recharging = battle.wizard.recharging
            /\ battle'.boss = battle.boss
            /\ battle'.wizard.possible_spells =
                   IF battle'.wizard.hitpoints > 0
                   THEN LegalSpells(battle'.wizard, battle'.boss)
                   ELSE battle.wizard.possible_spells]_vars

\* An attack of damage 3 against armor 7: exactly 1 hitpoint is lost.
C13_Witness ==
    /\ call.op = "boss_turn_attack"
    /\ call.ret = "None"
    /\ battle.boss.damage = 3
    /\ battle.wizard.armor = 7
    /\ ~battle.hard_mode
    /\ battle.spells_used = <<"Shield">>
    /\ battle.wizard.hitpoints = start.hitpoints - 1

\* The cost and the effect of each spell as the specification lists them.
SpellCost(spell) ==
    CASE spell = "MagicMissile" -> 53
      [] spell = "Drain" -> 73
      [] spell = "Shield" -> 113
      [] spell = "Poison" -> 173
      [] spell = "Recharge" -> 229

SpellEffect(spell, wizard, boss) ==
    CASE spell = "MagicMissile" ->
           [wizard |-> wizard, boss |-> [boss EXCEPT !.hitpoints = @ - 4]]
      [] spell = "Drain" ->
           [wizard |-> [wizard EXCEPT !.hitpoints = @ + 2],
            boss |-> [boss EXCEPT !.hitpoints = @ - 2]]
      [] spell = "Shield" ->
           [wizard |-> [wizard EXCEPT !.shielded = Some(6), !.armor = 7],
            boss |-> boss]
      [] spell = "Poison" ->
           [wizard |-> wizard, boss |-> [boss EXCEPT !.poisoned = Some(6)]]
      [] spell = "Recharge" ->
           [wizard |-> [wizard EXCEPT !.recharging = Some(5)], boss |-> boss]

\* The battle `after` is the battle `before` with the spell cast and
\* accounted for; the outcome is the only other field the call may write,
\* in its closing check of the boss's hitpoints.
CastOf(before, after, spell) ==
    LET effect == SpellEffect(spell, before.wizard, before.boss)
    IN  /\ after.wizard = [effect.wizard EXCEPT !.mana = @ - SpellCost(spell)]
        /\ after.boss = effect.boss
        /\ after.mana_used = before.mana_used + SpellCost(spell)
        /\ after.spells_used = Append(before.spells_used, spell)
        /\ after.hard_mode = before.hard_mode
        /\ after.outcome = IF after.boss.hitpoints <= 0
                           THEN Some(TRUE)
                           ELSE before.outcome

\* C14: an accepted cast debits the wizard's mana by the spell's cost, adds
\* that cost to mana_used, appends the spell to spells_used and applies the
\* spell's effect and nothing else; no other field of either combatant and
\* of the accounting changes (the outcome is set by the check that closes
\* the call when the boss is at 0 or below).  For wizard_turn_cast_spell,
\* and for the coarse wizard_turn on the battle as its effect tick left it.
C14_CastEffectsAndAccounting ==
    [][/\ call'.op = "wizard_turn_cast_spell" /\ call'.ret \in Accepted
          => CastOf(battle, battle', call'.spell)
       /\ call'.op = "wizard_turn"
          /\ call'.ret \in {"Ok(None)", "Ok(Some(true))"}
          => CastOf(AfterTick(game), game', call'.spell)]_vars

\* A Drain cast as the third spell, which did not end the battle.
C14_Witness ==
    /\ call.op = "wizard_turn_cast_spell"
    /\ call.spell = "Drain"
    /\ call.ret = "Ok(None)"
    /\ Len(battle.spells_used) = 3
    /\ battle.spells_used[3] = "Drain"
    /\ is_some(battle.wizard.recharging)

\* An Option timer after one tick: decremented, and absent instead of 0.
Ticked(timer) ==
    IF is_none(timer) \/ timer = Some(1) THEN None ELSE Some(timer[1] - 1)

\* The ticks an effect has still to run.
Remaining(timer) == IF is_some(timer) THEN timer[1] ELSE 0

\* The last step was a call of rpg.rs that applied the ongoing effects: not
\* a wrapper that returned at once, not a hard-mode loss.
EffectsApplied(c) ==
    \/ c.op = "wizard_turn_apply_effects" /\ c.ret \in {"None", "Some(true)"}
    \/ c.op = "boss_turn_apply_effects" /\ c.ret \in {"None", "Some(true)"}

PoisonTick(before, after) ==
    /\ after.poisoned = Ticked(before.poisoned)
    /\ after.hitpoints = IF is_some(before.poisoned)
                         THEN before.hitpoints - 3
                         ELSE before.hitpoints

\* Every Poison in the log has dealt 3 per tick it has run: 18 once it is
\* over, 3 * (6 - timer) while it runs.
PoisonTally(b) ==
    b.boss.hitpoints =
        start.boss_hitpoints
        - 4 * Count(b.spells_used, "MagicMissile")
        - 2 * Count(b.spells_used, "Drain")
        - 3 * (6 * Count(b.spells_used, "Poison") - Remaining(b.boss.poisoned))

\* C15: an accepted Poison starts the timer at 6; every following effect
\* application takes exactly 3 from the boss and 1 from the timer, and the
\* one that finds the timer at 1 -- the sixth -- clears it, 18 damage in all;
\* an application with no poison active leaves the boss's hitpoints alone.
C15_PoisonDuration ==
    [][/\ call'.op = "wizard_turn_cast_spell" /\ call'.ret \in Accepted
          /\ call'.spell = "Poison"
          => battle'.boss.poisoned = Some(6)
       /\ EffectsApplied(call')
          => PoisonTick(battle.boss, battle'.boss)
       /\ call'.op = "boss_turn"
          => PoisonTick(game.boss, game'.boss)
       /\ PoisonTally(battle')
       /\ PoisonTally(game')]_vars

\* A poison that ran its six ticks without ending the battle.
C15_Witness ==
    /\ mode = "app"
    /\ call.op = "wizard_turn_apply_effects"
    /\ Count(battle.spells_used, "Poison") = 1
    /\ is_none(battle.boss.poisoned)
    /\ is_none(battle.outcome)
    /\ battle.boss.hitpoints = start.boss_hitpoints - 18
                               - 4 * Count(battle.spells_used, "MagicMissile")
                               - 2 * Count(battle.spells_used, "Drain")

RechargeTick(before, after) ==
    /\ after.recharging = Ticked(before.recharging)
    /\ after.mana = IF is_some(before.recharging)
                    THEN before.mana + 101
                    ELSE before.mana

SpentOn(spells_used) ==
    53 * Count(spells_used, "MagicMissile") + 73 * Count(spells_used, "Drain")
    + 113 * Count(spells_used, "Shield") + 173 * Count(spells_used, "Poison")
    + 229 * Count(spells_used, "Recharge")

\* Every Recharge in the log has given 101 per tick it has run: 505 once it
\* is over, 101 * (5 - timer) while it runs.
RechargeTally(b) ==
    b.wizard.mana =
        start.mana - SpentOn(b.spells_used)
        + 101 * (5 * Count(b.spells_used, "Recharge")
                 - Remaining(b.wizard.recharging))

\* C16: an accepted Recharge starts the timer at 5; every following effect
\* application adds exactly 101 to the wizard's mana, whatever it is, and
\* takes 1 from the timer, and the one that finds the timer at 1 -- the
\* fifth -- clears it, 505 mana in all; an application with no recharge
\* active leaves the mana alone.
C16_RechargeDuration ==
    [][/\ call'.op = "wizard_turn_cast_spell" /\ call'.ret \in Accepted
          /\ call'.spell = "Recharge"
          => battle'.wizard.recharging = Some(5)
       /\ EffectsApplied(call')
          => RechargeTick(battle.wizard, battle'.wizard)
       /\ call'.op = "boss_turn"
          => RechargeTick(game.wizard, game'.wizard)
       /\ call'.ret # "panic"
          => RechargeTally(battle') /\ RechargeTally(game')]_vars

\* A recharge that ran its five ticks: the boss's half of the third round
\* after the cast cleared it.
C16_Witness ==
    /\ mode = "app"
    /\ call.op = "boss_turn_apply_effects"
    /\ call.ret = "None"
    /\ Count(battle.spells_used, "Recharge") = 1
    /\ is_none(battle.wizard.recharging)
    /\ battle.wizard.mana = start.mana + 505 - SpentOn(battle.spells_used)

\* What every reading of the shield's course shares: the cast puts the armor
\* at 7 with the timer at 6, and an effect application that finds the timer
\* above 1 counts it down and leaves the armor at 7.
ShieldCast(after) ==
    after.armor = 7 /\ after.shielded = Some(6)

ShieldCountsDown(before, after) ==
    is_some(before.shielded) /\ before.shielded # Some(1)
    => after.shielded = Ticked(before.shielded) /\ after.armor = 7

\* C17 as worded: the armor drops one tick after the timer has reached 0, so
\* the application that takes the timer from 1 to 0 still leaves it at 7.
C17_ArmorDropsTheTickAfter ==
    [][/\ call'.op = "wizard_turn_cast_spell" /\ call'.ret \in Accepted
          /\ call'.spell = "Shield"
          => ShieldCast(battle'.wizard)
       /\ EffectsApplied(call')
          => /\ ShieldCountsDown(battle.wizard, battle'.wizard)
             /\ battle.wizard.shielded = Some(1) => battle'.wizard.armor = 7]_vars

\* C17 as amended: the armor drops to 0 in the very application that takes
\* the timer from 1 to 0, the sixth after the cast, which also clears the
\* timer; until then it is 7, and with no shield it stays 0.
C17_ArmorDropsWithTheTimer ==
    [][/\ call'.op = "wizard_turn_cast_spell" /\ call'.ret \in Accepted
          /\ call'.spell = "Shield"
          => ShieldCast(battle'.wizard)
       /\ EffectsApplied(call')
          => /\ ShieldCountsDown(battle.wizard, battle'.wizard)
             /\ battle.wizard.shielded = Some(1)
                => battle'.wizard.armor = 0 /\ is_none(battle'.wizard.shielded)
             /\ is_none(battle.wizard.shielded)
                => battle'.wizard.armor = 0 /\ is_none(battle'.wizard.shielded)
       /\ call'.op = "boss_turn"
          => /\ ShieldCountsDown(game.wizard, game'.wizard)
             /\ game.wizard.shielded = Some(1)
                => game'.wizard.armor = 0 /\ is_none(game'.wizard.shielded)]_vars

\* A shield that covered three attacks of damage 3 (1 hitpoint each) and ran
\* out in the sixth effect application after its cast.
C17_Witness ==
    /\ mode = "app"
    /\ call.op = "wizard_turn_apply_effects"
    /\ call.ret = "None"
    /\ ~battle.hard_mode
    /\ battle.spells_used = <<"Shield", "MagicMissile", "MagicMissile">>
    /\ battle.wizard.armor = 0
    /\ is_none(battle.wizard.shielded)
    /\ battle.wizard.hitpoints = start.hitpoints - 3

\* C18: with hard_mode set, wizard_turn_apply_effects takes exactly 1 from
\* the wizard's hitpoints and, if that leaves them at 0 or below, sets the
\* outcome to BossWon, returns it and applies no effect: timers, armor, mana
\* and the boss's hitpoints are as before the call.  With hard_mode clear
\* the call never changes the wizard's hitpoints.
C18_HardModeStep ==
    [][call'.op = "wizard_turn_apply_effects" /\ call'.ret # "return" =>
        /\ battle.hard_mode
           => battle'.wizard.hitpoints = battle.wizard.hitpoints - 1
        /\ battle.hard_mode /\ battle.wizard.hitpoints - 1 <= 0
           => /\ battle'.outcome = Some(FALSE)
              /\ call'.ret = "Some(false)"
              /\ battle' = [battle EXCEPT !.wizard.hitpoints = @ - 1,
                                          !.outcome = Some(FALSE)]
        /\ ~battle.hard_mode
           => battle'.wizard.hitpoints = battle.wizard.hitpoints]_vars

\* A hard-mode loss right after a Poison cast: the poison did not tick.
C18_Witness ==
    /\ call.op = "wizard_turn_apply_effects"
    /\ call.ret = "Some(false)"
    /\ battle.hard_mode
    /\ battle.wizard.hitpoints = 0
    /\ battle.boss.poisoned = Some(6)
    /\ battle.boss.hitpoints = start.boss_hitpoints

\* Both sides' ongoing effects were applied exactly once between two battles.
TickedOnce(before, after) ==
    /\ after.wizard.shielded = Ticked(before.wizard.shielded)
    /\ after.wizard.recharging = Ticked(before.wizard.recharging)
    /\ after.boss.poisoned = Ticked(before.boss.poisoned)
    /\ RechargeTick(before.wizard, after.wizard)
    /\ PoisonTick(before.boss, after.boss)

TimersOf(b) == <<b.wizard.shielded, b.wizard.recharging, b.boss.poisoned>>

\* The loss of hard mode: 1 hitpoint gone, BossWon, nothing else touched.
HardModeLoss(before, after) ==
    after = [before EXCEPT !.wizard.hitpoints = @ - 1, !.outcome = Some(FALSE)]

\* The sequence of the App: run() applies the wizard's half of the effects,
\* then each step_game that goes ahead calls cast, boss effects, boss attack
\* and the wizard's half of the next round, in that order.
AppOrder ==
    /\ call'.op = "step_game"
       => call.op \in {"wizard_turn_apply_effects", "step_game"}
          /\ battle' = battle
    /\ call'.op = "wizard_turn_cast_spell"
       => call.op \in {"wizard_turn_apply_effects", "step_game"}
    /\ call'.op = "boss_turn_apply_effects"
       => call.op = "wizard_turn_cast_spell"
    /\ call'.op = "boss_turn_attack"
       => call.op = "boss_turn_apply_effects"
    /\ call'.op = "wizard_turn_apply_effects"
       => call.op \in {"new", "boss_turn_attack"}

\* What each call of the App's sequence does to the ongoing effects.
AppTicks ==
    /\ call'.op = "wizard_turn_apply_effects" /\ call'.ret = "Some(false)"
       => HardModeLoss(battle, battle')
    /\ call'.op = "wizard_turn_apply_effects"
       /\ call'.ret \in {"None", "Some(true)"}
       => /\ TickedOnce(battle, battle')
          /\ battle'.wizard.hitpoints =
                 battle.wizard.hitpoints - (IF battle.hard_mode THEN 1 ELSE 0)
    /\ call'.op = "wizard_turn_cast_spell"
       => CastOf(battle, battle', call'.spell)
    /\ call'.op = "boss_turn_apply_effects" /\ call'.ret # "return"
       => /\ TickedOnce(battle, battle')
          /\ battle'.wizard.hitpoints = battle.wizard.hitpoints
    /\ call'.op = "boss_turn_attack"
       => TimersOf(battle') = TimersOf(battle)

\* The coarse pair: wizard_turn is the hard-mode step, one effect
\* application and the cast; boss_turn is one effect application and, if
\* the boss is still up, the attack on the armor that application left.
CoarseOrder ==
    /\ call'.op = "wizard_turn"
       => \/ call.op \in {"new", "boss_turn"}
          \/ call.op = "wizard_turn" /\ call.ret = "Err"
    /\ call'.op = "wizard_turn" /\ call'.ret = "Ok(Some(false))"
       => HardModeLoss(game, game')
    /\ call'.op = "wizard_turn" /\ call'.ret \in {"Ok(None)", "Ok(Some(true))"}
       => CastOf(AfterTick(game), game', call'.spell)
    /\ call'.op = "boss_turn"
       => /\ call.op = "wizard_turn" /\ call.ret = "Ok(None)"
          /\ TickedOnce(game, game')
          /\ game'.wizard.hitpoints =
                 IF game'.boss.hitpoints <= 0
                 THEN game.wizard.hitpoints
                 ELSE attack(game'.boss,
                             Wizard_apply_effect(game.wizard)).hitpoints

\* C19: in every round of the App's sequence and of the coarse pair, both
\* sides' effects are applied exactly once after the previous boss attack
\* and before the spell takes effect, and exactly once after the spell and
\* before the boss's attack; the cast and the attack themselves apply none.
\* In hard mode the 1-point damage and its loss check come first in the
\* wizard's half: a loss there leaves every effect unapplied.
C19_OrderingAcrossARound ==
    [][/\ mode = "app" => AppOrder /\ AppTicks
       /\ mode = "coarse" => CoarseOrder]_vars

\* The second boss attack of a hard-mode battle: the poison cast in the
\* first round has ticked three times (boss, wizard, boss).
C19_Witness ==
    /\ mode = "app"
    /\ battle.hard_mode
    /\ call.op = "boss_turn_attack"
    /\ call.ret = "None"
    /\ battle.spells_used = <<"Poison", "MagicMissile">>
    /\ battle.boss.poisoned = Some(3)
    /\ battle.boss.hitpoints = start.boss_hitpoints - 9 - 4

\* C20: under the App, once the outcome is set every later step_game,
\* whatever the spell selected, and every turn wrapper leave the whole
\* battle as it is: hitpoints, armor, mana, the three timers, the legal
\* set, mana_used, spells_used and the outcome.
C20_FrozenAfterOutcome ==
    [][mode = "app" /\ is_some(battle.outcome)
       => /\ battle' = battle
          /\ call'.ret = "return"
          /\ \A spell_selected \in 0..5 :
                 step_game(battle, spell_selected).battle = battle]_vars

\* The boss fell to the cast; the wrappers of the rest of the round returned
\* at once and so did the step_game of the next key press.
C20_Witness ==
    /\ mode = "app"
    /\ call.op = "step_game"
    /\ call.ret = "return"
    /\ battle.outcome = Some(TRUE)
    /\ battle.wizard.hitpoints > 0
    /\ battle.wizard.hitpoints <= battle.boss.damage
    /\ Len(battle.spells_used) >= 1

\* C21: boss_turn_apply_effects makes the same effect ticks and the same
\* boss-death check as wizard_turn_apply_effects without hard mode, and for
\* both values of hard_mode it leaves the wizard's hitpoints as they were;
\* it sets the outcome to WizardWon or not at all, never to BossWon.
C21_BossHalfHasNoHardMode ==
    [][call'.op = "boss_turn_apply_effects" /\ call'.ret # "return" =>
        /\ battle'.wizard.hitpoints = battle.wizard.hitpoints
        /\ TickedOnce(battle, battle')
        /\ call'.ret \in {"None", "Some(true)"}
        /\ battle'.outcome \in {battle.outcome, Some(TRUE)}
        /\ battle'.outcome = Some(TRUE) /\ call'.ret = "Some(true)"
           <=> battle'.boss.hitpoints <= 0
        /\ [battle' EXCEPT !.hard_mode = FALSE] =
               wizard_turn_apply_effects(
                   [battle EXCEPT !.hard_mode = FALSE]).battle]_vars

\* The boss's half in hard mode with the wizard on the last hitpoint: the
\* wizard's half would have ended the battle here.
C21_Witness ==
    /\ call.op = "boss_turn_apply_effects"
    /\ call.ret = "None"
    /\ battle.hard_mode
    /\ battle.wizard.hitpoints = 1
    /\ is_none(battle.outcome)
    /\ is_some(battle.boss.poisoned)

\* The wizard's two ticks and the two sides' effects, each pair both ways.
OrderIndependent(b) ==
    /\ recharge_tick(shield_tick(b.wizard)) = Wizard_apply_effect(b.wizard)
    /\ shield_tick(recharge_tick(b.wizard)) = Wizard_apply_effect(b.wizard)
    /\ LET wizard_first == [b EXCEPT !.wizard = Wizard_apply_effect(@)]
           boss_first == [b EXCEPT !.boss = Boss_apply_effect(@)]
       IN  /\ [wizard_first EXCEPT !.boss = Boss_apply_effect(@)]
                  = apply_effects(b)
           /\ [boss_first EXCEPT !.wizard = Wizard_apply_effect(@)]
                  = apply_effects(b)

\* C22: in every state, the shield tick and the recharge tick applied in
\* either order give the wizard that apply_effect gives, and the wizard's
\* and the boss's effects applied in either order give the same battle.
C22_EffectOrderIndependent ==
    /\ OrderIndependent(battle)
    /\ OrderIndependent(game)

\* All three effects running, the shield on its last tick.
C22_Witness ==
    /\ battle.wizard.shielded = Some(1)
    /\ is_some(battle.wizard.recharging)
    /\ is_some(battle.boss.poisoned)

\* C23: under the round protocol no undecided battle is stuck: whenever it
\* is the wizard's turn to cast and the outcome is undecided, some spell is
\* legal, so that the round can be played and the battle goes on to its end.
C23_NeverStuck ==
    /\ mode = "app" /\ pc = "idle" /\ is_none(battle.outcome)
       => /\ battle.wizard.possible_spells # {}
          /\ \E spell_selected \in 0..5 :
                 ~step_game_returns(battle, spell_selected)
    /\ mode = "coarse" /\ pc = "wizard_turn" /\ is_none(game.outcome)
       => game.wizard.possible_spells # {}

\* C24: for the four transitions called in any order, a cast that passes
\* the possible_spells check never finds its effect active: no call ends
\* in the panic of shield(), poison() or recharge().
C24_LegalityCheckSuffices ==
    [][/\ mode = "any"
          /\ call'.op = "wizard_turn_cast_spell"
          /\ call'.spell \in battle.wizard.possible_spells
          => /\ call'.ret # "panic"
             /\ call'.spell = "Shield" => is_none(battle.wizard.shielded)
             /\ call'.spell = "Poison" => is_none(battle.boss.poisoned)
             /\ call'.spell = "Recharge" => is_none(battle.wizard.recharging)]_vars

\* C25: under the round protocol (the App's sequence, the coarse pair) the
\* wizard's mana is never negative.
C25_ManaNeverNegative ==
    /\ mode = "app" => battle.wizard.mana >= 0
    /\ mode = "coarse" => game.wizard.mana >= 0

\* A cast from a recomputed legal set that leaves less than any spell costs.
C25_Witness ==
    /\ mode = "app"
    /\ call.op = "wizard_turn_cast_spell"
    /\ call.ret = "Ok(None)"
    /\ Len(battle.spells_used) >= 2
    /\ battle.wizard.mana < 53
    /\ battle.wizard.mana < get_mana(call.spell)

HitpointsSum(b) == b.wizard.hitpoints + b.boss.hitpoints

\* C26: under the round protocol, a complete round that does not end the
\* battle (an accepted cast, both effect applications, the boss's attack)
\* leaves wizard hitpoints + boss hitpoints strictly lower than before,
\* whatever spell was cast.  For step_game from any state where the App
\* waits for a spell, and for the coarse round from any wizard's turn.
C26_HitpointsSumDecreases ==
    /\ mode = "app" /\ pc = "idle" /\ is_none(battle.outcome)
       => \A spell_selected \in 0..5 :
              LET r == step_game(battle, spell_selected)
              IN  r.ret # "return" /\ is_none(r.battle.outcome)
                  => HitpointsSum(r.battle) < HitpointsSum(battle)
    /\ mode = "coarse" /\ pc = "wizard_turn" /\ is_none(game.outcome)
       => \A spell \in Spell :
              LET r == step(game, spell)
              IN  r.ret # "Err" /\ is_none(r.battle.outcome)
                  => HitpointsSum(r.battle) < HitpointsSum(game)

\* After a Shield round and a Drain round against damage 3: the heal of 2
\* cancels the 2 drained, and each attack on armor 7 took its single point.
C26_Witness ==
    /\ mode = "app"
    /\ pc = "idle"
    /\ ~battle.hard_mode
    /\ battle.boss.damage = 3
    /\ battle.spells_used = <<"Shield", "Drain">>
    /\ is_none(battle.outcome)
    /\ HitpointsSum(battle) = start.hitpoints + start.boss_hitpoints - 2

RECURSIVE CatalogCost(_)
CatalogCost(spells_used) ==
    IF spells_used = << >>
    THEN 0
    ELSE get_mana(Head(spells_used)) + CatalogCost(Tail(spells_used))

SpendingLogOf(b) == b.mana_used = CatalogCost(b.spells_used)

\* C27: in every state reached by any sequence of calls mana_used is the
\* sum of the catalog costs of spells_used; an accepted cast appends its
\* spell at the end of spells_used, and every other call -- a rejected cast,
\* an effect application, a boss attack -- leaves both as they were, so the
\* length of the log is the number of accepted casts.
C27_SpendingLog ==
    [][/\ SpendingLogOf(battle') /\ SpendingLogOf(game')
       /\ IF call'.op = "wizard_turn_cast_spell" /\ call'.ret \in Accepted
          THEN /\ battle'.spells_used = Append(battle.spells_used, call'.spell)
               /\ battle'.mana_used = battle.mana_used + get_mana(call'.spell)
          ELSE /\ battle'.spells_used = battle.spells_used
               /\ battle'.mana_used = battle.mana_used
       /\ IF call'.op = "wizard_turn"
             /\ call'.ret \in {"Ok(None)", "Ok(Some(true))"}
          THEN /\ game'.spells_used = Append(game.spells_used, call'.spell)
               /\ game'.mana_used = game.mana_used + get_mana(call'.spell)
          ELSE /\ game'.spells_used = game.spells_used
               /\ game'.mana_used = game.mana_used]_vars

\* A cast rejected after three accepted ones.
C27_Witness ==
    /\ mode = "any"
    /\ call.op = "wizard_turn_cast_spell"
    /\ call.ret = "Err"
    /\ Len(battle.spells_used) = 3
    /\ battle.mana_used = CatalogCost(battle.spells_used)

\* The effect applications made while a recharge was active: 5 for each
\* Recharge in the log, less the ticks the running one has left.
ManaConserved(b) ==
    b.wizard.mana =
        start.mana - b.mana_used
        + 101 * (5 * Count(b.spells_used, "Recharge")
                 - Remaining(b.wizard.recharging))

\* C28: in every reachable state the wizard's mana is the initial mana less
\* mana_used plus 101 for every effect application made while a recharge
\* was active; nothing but an accepted cast and a recharge tick moves it.
C28_ManaConservation ==
    /\ ManaConserved(battle)
    /\ ManaConserved(game)

\* The recomputation at the end of a boss attack that left the wizard alive.
Recomputed(c) ==
    c.op \in {"boss_turn_attack", "boss_turn"} /\ c.ret = "None"

TimerParity(b) ==
    /\ b.wizard.shielded \in {None, Some(5), Some(3), Some(1)}
    /\ b.boss.poisoned \in {None, Some(5), Some(3), Some(1)}
    /\ b.wizard.recharging \in {None, Some(4), Some(2)}
    /\ "Shield" \in b.wizard.possible_spells /\ is_some(b.wizard.shielded)
       => b.wizard.shielded = Some(1)
    /\ "Poison" \in b.wizard.possible_spells /\ is_some(b.boss.poisoned)
       => b.boss.poisoned = Some(1)
    /\ "Recharge" \in b.wizard.possible_spells => is_none(b.wizard.recharging)

\* The rounds of a log whose boss attack falls within three rounds of a
\* cast of the spell, the cast's own round included.
Covered(log, spell) ==
    {n \in 1..Len(log) : \E i \in 1..n : log[i] = spell /\ n <= i + 2}

\* C29: under the round protocol, whenever the legal set is recomputed the
\* shield and poison timers are absent or 5, 3 or 1 and the recharge timer
\* is absent or 4 or 2: Shield and Poison are legal with their effect still
\* active only on the timer's last tick, which is at the third
\* recomputation after the cast, and Recharge is never legal while a
\* recharge is active.
C29_TimerParityAtRecomputation ==
    /\ mode = "app" /\ Recomputed(call)
       => /\ TimerParity(battle)
          /\ battle.wizard.shielded = Some(1)
             => /\ Len(battle.spells_used) >= 3
                /\ battle.spells_used[Len(battle.spells_used) - 2] = "Shield"
          /\ battle.boss.poisoned = Some(1)
             => /\ Len(battle.spells_used) >= 3
                /\ battle.spells_used[Len(battle.spells_used) - 2] = "Poison"
    /\ mode = "coarse" /\ Recomputed(call)
       => TimerParity(game)

\* The third recomputation after a Shield cast in the coarse battle: the
\* timer is 1 and Shield is legal again, the recharge cast first is over.
C29_Witness ==
    /\ mode = "coarse"
    /\ Recomputed(call)
    /\ game.wizard.shielded = Some(1)
    /\ "Shield" \in game.wizard.possible_spells
    /\ Count(game.spells_used, "Recharge") = 1
    /\ is_none(game.wizard.recharging)

\* C30: under the round protocol every boss attack of the three rounds that
\* start with a Shield cast is made against armor 7; so when Shield is
\* recast as soon as it is legal again (the wizard turn after the
\* recomputation that saw the timer at 1) all six attacks from the first
\* cast to the expiry of the second meet armor 7; the armor 0 of the
\* expired shield is there only from the wizard's effect application to
\* the recast, and no attack sees it.
C30_GapFreeShieldRenewal ==
    [][/\ mode = "app"
          /\ call'.op = "boss_turn_attack" /\ call'.ret # "return"
          /\ Len(battle.spells_used) \in Covered(battle.spells_used, "Shield")
          => /\ battle.wizard.armor = 7
             /\ battle'.wizard.hitpoints =
                    attack(battle.boss,
                           [battle.wizard EXCEPT !.armor = 7]).hitpoints
       /\ mode = "app"
          /\ call'.op = "wizard_turn_cast_spell" /\ call'.spell = "Shield"
          /\ Count(battle.spells_used, "Shield") >= 1
          => /\ battle.wizard.armor = 0
             /\ call.op \in {"wizard_turn_apply_effects", "step_game"}
             /\ battle'.wizard.armor = 7
       /\ mode = "coarse"
          /\ call'.op = "boss_turn" /\ call'.ret # "Some(true)"
          /\ Len(game.spells_used) \in Covered(game.spells_used, "Shield")
          => /\ game'.wizard.armor = 7
             /\ game'.wizard.hitpoints =
                    attack(game.boss,
                           [game.wizard EXCEPT !.armor = 7]).hitpoints]_vars

\* The sixth attack in a row on armor 7: Shield was cast, and cast again
\* three rounds later, and the second shield is on its last tick.
C30_Witness ==
    /\ mode = "app"
    /\ call.op = "boss_turn_attack"
    /\ call.ret = "None"
    /\ Len(battle.spells_used) >= 6
    /\ battle.spells_used[Len(battle.spells_used) - 5] = "Shield"
    /\ battle.spells_used[Len(battle.spells_used) - 2] = "Shield"
    /\ battle.wizard.shielded = Some(1)
    /\ battle.wizard.armor = 7

====
